---- MODULE Spec2Model ----
(***************************************************************************)
(* State-machine model of the GodotAI editor plugin (src/core/godotai.cpp, *)
(* godotai.hpp, register_types.cpp): the per-instance server flag and      *)
(* port, the lazily created singleton, module registration, and the lines  *)
(* each call prints.                                                       *)
(***************************************************************************)
EXTENDS Integers, Sequences, FiniteSets, TLC

\* ------------------------------------------------------------------ bounds
\* Number of GodotAI objects the host (or get_singleton) may construct.
MaxInst == 2
\* Number of lines the console log may hold.
MaxLog == 6

\* --------------------------------------------------------------- constants
\* int server_port = 8765;
DefaultPort == 8765

Instances == 1..MaxInst
\* singleton_instance = nullptr
nullptr == 0
\* Arguments the callers pass for `int port`: the default, another port of the
\* TCP range 1..65535, and one value on each side of that range.
Ports == {0, 1, DefaultPort, 65536}
\* godot::ModuleInitializationLevel: the editor level and one of the others.
MODULE_INITIALIZATION_LEVEL_EDITOR == "MODULE_INITIALIZATION_LEVEL_EDITOR"
MODULE_INITIALIZATION_LEVEL_SCENE == "MODULE_INITIALIZATION_LEVEL_SCENE"
Levels == {MODULE_INITIALIZATION_LEVEL_SCENE, MODULE_INITIALIZATION_LEVEL_EDITOR}

VARIABLES
    slot,                \* slot[i]: "free" (never constructed), "live", "destroyed"
    obj,                 \* obj[i]: the fields of GodotAI object i
    singleton_instance,  \* GodotAI::singleton_instance
    registered,          \* ClassDB holds the GodotAI class
    listeners,           \* ports on which a listener endpoint is bound
    log,                 \* lines printed by UtilityFunctions::print
    last,                \* the call that produced this state
    rt,                  \* rt[i]: progress of start(p); stop(); start(p) on i
    thr,                 \* thr[t]: the call thread t is inside, and its line
    deact                \* deact[i]: a stop_server/_exit_tree of i that had the
                         \*   last word has returned: it began when no start of i
                         \*   was still before its check, and none began since

vars == <<slot, obj, singleton_instance, registered, listeners, log, last, rt,
          thr, deact>>

\* ------------------------------------------------------------ the object
\* bool server_running = false; int server_port = 8765;
GodotAI_fields == [server_running |-> FALSE, server_port |-> DefaultPort]

Line(text) == <<text>>
LineWithPort(text, port) == <<text, port>>

\* start_server without its `if (server_running)` early return.
start_server_unguarded(o, port) ==
    [obj |-> [o EXCEPT !.server_port = port, !.server_running = TRUE],
     out |-> <<LineWithPort("GodotAI: Server started (stub) on port ", port)>>]

\* start_server without `server_port = port`.
start_server_keeps_port(o, port) ==
    IF o.server_running
    THEN [obj |-> o, out |-> <<Line("GodotAI: Server already running")>>]
    ELSE [obj |-> [o EXCEPT !.server_running = TRUE],
          out |-> <<LineWithPort("GodotAI: Server started (stub) on port ", port)>>]

\* void GodotAI::start_server(int port)
start_server(o, port) ==
    IF o.server_running
    THEN [obj |-> o, out |-> <<Line("GodotAI: Server already running")>>]
    ELSE [obj |-> [o EXCEPT !.server_port = port, !.server_running = TRUE],
          out |-> <<LineWithPort("GodotAI: Server started (stub) on port ", port)>>]

\* stop_server without `server_running = false`.
stop_server_keeps_running(o) ==
    IF ~o.server_running
    THEN [obj |-> o, out |-> <<>>]
    ELSE [obj |-> o, out |-> <<Line("GodotAI: Server stopped")>>]

\* stop_server without its `if (!server_running)` early return.
stop_server_unguarded(o) ==
    [obj |-> [o EXCEPT !.server_running = FALSE],
     out |-> <<Line("GodotAI: Server stopped")>>]

\* void GodotAI::stop_server()
stop_server(o) ==
    IF ~o.server_running
    THEN [obj |-> o, out |-> <<>>]
    ELSE [obj |-> [o EXCEPT !.server_running = FALSE],
          out |-> <<Line("GodotAI: Server stopped")>>]

\* bool GodotAI::is_server_running() const
is_server_running(o) == o.server_running

\* void GodotAI::_enter_tree()
_enter_tree(o) ==
    LET r == start_server(o, o.server_port)
    IN  [obj |-> r.obj,
         out |-> <<Line("GodotAI: Plugin loaded and activated")>> \o r.out]

\* _exit_tree without its call of stop_server.
_exit_tree_no_stop(o) ==
    [obj |-> o, out |-> <<Line("GodotAI: Plugin deactivated")>>]

\* void GodotAI::_exit_tree()
_exit_tree(o) ==
    LET r == stop_server(o)
    IN  [obj |-> r.obj,
         out |-> r.out \o <<Line("GodotAI: Plugin deactivated")>>]

\* A constructor that also marks the server running.
GodotAI_ctor_autostart ==
    [obj |-> [GodotAI_fields EXCEPT !.server_running = TRUE],
     out |-> <<Line("GodotAI: Constructor called")>>]

\* GodotAI::GodotAI()
GodotAI_ctor == [obj |-> GodotAI_fields, out |-> <<Line("GodotAI: Constructor called")>>]

\* GodotAI::~GodotAI()
GodotAI_dtor(o) == [obj |-> o, out |-> <<Line("GodotAI: Destructor called")>>]

\* ---------------------------------------------------------------- ghosts
NoObj == [server_running |-> FALSE, server_port |-> 0]
\* No start(p); stop(); start(p) in progress. A trip records how many of its
\* three calls have run, its port, and whether its latest start_server
\* printed "Server started".
NoTrip == [n |-> 0, port |-> 0, started |-> FALSE]

NoLevel == "none"

\* A call on object self: its argument, the object's fields before and after
\* it, the lines it printed, and what it returned.
Call(op, self, arg, pre, post, out, ret) ==
    [op |-> op, self |-> self, arg |-> arg, level |-> NoLevel,
     pre |-> pre, post |-> post, out |-> out, ret |-> ret]

ModuleCall(op, level, out) ==
    [op |-> op, self |-> nullptr, arg |-> 0, level |-> level,
     pre |-> NoObj, post |-> NoObj, out |-> out, ret |-> FALSE]

\* Callers that can be inside a method at the same time: the editor's main
\* thread, which runs the plugin hooks _enter_tree and _exit_tree, and a script
\* thread, which calls the bound methods start_server and stop_server.
MainThread == "main"
ScriptThread == "script"
Threads == {MainThread, ScriptThread}
\* A thread that is inside no method.
Idle == [op |-> "none", self |-> nullptr, port |-> 0, pc |-> "idle", final |-> FALSE]

\* memnew takes the lowest slot never used.
FreeSlots == {i \in Instances : slot[i] = "free"}
NextSlot == CHOOSE i \in FreeSlots : \A j \in FreeSlots : i <= j

Fits(out) == Len(log) + Len(out) <= MaxLog

Init ==
    /\ slot = [i \in Instances |-> "free"]
    /\ obj = [i \in Instances |-> NoObj]
    /\ singleton_instance = nullptr
    /\ registered = FALSE
    /\ listeners = {}
    /\ log = <<>>
    /\ last = Call("load", nullptr, 0, NoObj, NoObj, <<>>, FALSE)
    /\ rt = [i \in Instances |-> NoTrip]
    /\ thr = [t \in Threads |-> Idle]
    /\ deact = [i \in Instances |-> FALSE]

\* The effect of an instance method (its result r = [obj, out]) on object self.
Apply(op, self, arg, r, ret, trip) ==
    /\ Fits(r.out)
    /\ obj' = [obj EXCEPT ![self] = r.obj]
    /\ log' = log \o r.out
    /\ last' = Call(op, self, arg, obj[self], r.obj, r.out, ret)
    /\ rt' = [rt EXCEPT ![self] = trip]
    /\ UNCHANGED <<slot, singleton_instance, registered, listeners, thr, deact>>

Call_start_server(self, port) ==
    /\ slot[self] = "live"
    /\ LET r == start_server(obj[self], port)
           started == \E i \in 1..Len(r.out) :
               r.out[i] = LineWithPort("GodotAI: Server started (stub) on port ", port)
       IN  Apply("start_server", self, port, r, FALSE,
                 IF rt[self].n = 2 /\ rt[self].port = port
                 THEN [n |-> 3, port |-> port, started |-> started]
                 ELSE IF ~obj[self].server_running
                 THEN [n |-> 1, port |-> port, started |-> started]
                 ELSE NoTrip)

Call_stop_server(self) ==
    /\ slot[self] = "live"
    /\ Apply("stop_server", self, 0, stop_server(obj[self]), FALSE,
             IF rt[self].n \in {1, 3} THEN [rt[self] EXCEPT !.n = 2] ELSE NoTrip)

Call_is_server_running(self) ==
    /\ slot[self] = "live"
    /\ Apply("is_server_running", self, 0, [obj |-> obj[self], out |-> <<>>],
             is_server_running(obj[self]), rt[self])

Call_enter_tree(self) ==
    /\ slot[self] = "live"
    /\ Apply("_enter_tree", self, 0, _enter_tree(obj[self]), FALSE, NoTrip)

Call_exit_tree(self) ==
    /\ slot[self] = "live"
    /\ Apply("_exit_tree", self, 0, _exit_tree(obj[self]), FALSE, NoTrip)

\* memnew(GodotAI) into slot i: the constructor runs on fresh fields.
Construct(i) ==
    /\ slot' = [slot EXCEPT ![i] = "live"]
    /\ obj' = [obj EXCEPT ![i] = GodotAI_ctor.obj]
    /\ log' = log \o GodotAI_ctor.out
    /\ rt' = [rt EXCEPT ![i] = NoTrip]

\* The host instantiates the registered plugin class.
Call_GodotAI ==
    /\ registered
    /\ FreeSlots # {}
    /\ Fits(GodotAI_ctor.out)
    /\ Construct(NextSlot)
    /\ last' = Call("GodotAI", NextSlot, 0, NoObj, GodotAI_ctor.obj, GodotAI_ctor.out, FALSE)
    /\ UNCHANGED <<singleton_instance, registered, listeners, thr, deact>>

\* The host frees object self (memdelete): only the destructor body runs; last
\* keeps the fields the object died with, and its storage is gone.
Call_dtor(self) ==
    LET r == GodotAI_dtor(obj[self]) IN
    /\ slot[self] = "live"
    /\ Fits(r.out)
    /\ slot' = [slot EXCEPT ![self] = "destroyed"]
    /\ obj' = [obj EXCEPT ![self] = NoObj]
    /\ log' = log \o r.out
    /\ last' = Call("~GodotAI", self, 0, obj[self], r.obj, r.out, FALSE)
    /\ rt' = [rt EXCEPT ![self] = NoTrip]
    /\ UNCHANGED <<singleton_instance, registered, listeners, thr, deact>>

\* get_singleton without its `if (singleton_instance == nullptr)`: every call
\* constructs.
Call_get_singleton_always_new ==
    /\ registered
    /\ FreeSlots # {}
    /\ Fits(GodotAI_ctor.out)
    /\ Construct(NextSlot)
    /\ singleton_instance' = NextSlot
    /\ last' = Call("get_singleton", NextSlot, 0, NoObj, GodotAI_ctor.obj,
                    GodotAI_ctor.out, FALSE)
    /\ UNCHANGED <<registered, listeners, thr, deact>>

\* GodotAI *GodotAI::get_singleton(): first call constructs, later calls return
\* the stored pointer.
Call_get_singleton ==
    /\ registered
    /\ \/ /\ singleton_instance = nullptr
          /\ FreeSlots # {}
          /\ Fits(GodotAI_ctor.out)
          /\ Construct(NextSlot)
          /\ singleton_instance' = NextSlot
          /\ last' = Call("get_singleton", NextSlot, 0, NoObj, GodotAI_ctor.obj,
                          GodotAI_ctor.out, FALSE)
       \/ /\ singleton_instance # nullptr
          /\ last' = Call("get_singleton", singleton_instance, 0,
                          obj[singleton_instance], obj[singleton_instance],
                          <<>>, FALSE)
          /\ UNCHANGED <<slot, obj, log, rt, singleton_instance>>
    /\ UNCHANGED <<registered, listeners, thr, deact>>

\* initialize_gdai_module without its `if (p_level != ..._EDITOR) return`.
initialize_gdai_module_ungated(p_level) ==
    [registered |-> TRUE,
     out |-> <<Line("GDAI: Module initialized (minimal stub)")>>]

\* void initialize_gdai_module(ModuleInitializationLevel p_level)
initialize_gdai_module(p_level) ==
    IF p_level # MODULE_INITIALIZATION_LEVEL_EDITOR
    THEN [registered |-> registered, out |-> <<>>]
    ELSE [registered |-> TRUE,
          out |-> <<Line("GDAI: Module initialized (minimal stub)")>>]

Call_initialize_gdai_module(p_level) ==
    LET r == initialize_gdai_module(p_level) IN
    /\ Fits(r.out)
    /\ registered' = r.registered
    /\ log' = log \o r.out
    /\ last' = ModuleCall("initialize_gdai_module", p_level, r.out)
    /\ UNCHANGED <<slot, obj, singleton_instance, listeners, rt, thr, deact>>

\* void uninitialize_gdai_module(ModuleInitializationLevel p_level): both
\* branches return without touching anything.
uninitialize_gdai_module(p_level) ==
    IF p_level # MODULE_INITIALIZATION_LEVEL_EDITOR
    THEN [obj |-> obj, out |-> <<>>]
    ELSE [obj |-> obj, out |-> <<>>]

Call_uninitialize_gdai_module(p_level) ==
    LET r == uninitialize_gdai_module(p_level) IN
    /\ Fits(r.out)
    /\ obj' = r.obj
    /\ log' = log \o r.out
    /\ last' = ModuleCall("uninitialize_gdai_module", p_level, r.out)
    /\ UNCHANGED <<slot, singleton_instance, registered, listeners, rt, thr, deact>>

Next ==
    \/ \E p_level \in Levels : Call_initialize_gdai_module(p_level)
    \/ \E p_level \in Levels : Call_uninitialize_gdai_module(p_level)
    \/ Call_GodotAI
    \/ \E self \in Instances : Call_dtor(self)
    \/ Call_get_singleton
    \/ \E self \in Instances, port \in Ports : Call_start_server(self, port)
    \/ \E self \in Instances : Call_stop_server(self)
    \/ \E self \in Instances : Call_is_server_running(self)
    \/ \E self \in Instances : Call_enter_tree(self)
    \/ \E self \in Instances : Call_exit_tree(self)

Spec == Init /\ [][Next]_vars

\* ------------------------------------------- the methods, line by line
\* Two threads inside the methods of one object at once: the fields are plain
\* bool and int, with no lock or atomic, so each read and each write of a field
\* is a step of its own and the steps of two calls interleave.

\* Thread t enters a start (start_server, _enter_tree) of self: a stop of self
\* still under way no longer has the last word.
EnterStart(t, op, self, port) ==
    /\ thr[t].pc = "idle"
    /\ slot[self] = "live"
    /\ thr' = [u \in Threads |->
                 IF u = t
                 THEN [op |-> op, self |-> self, port |-> port,
                       pc |-> "start_check", final |-> FALSE]
                 ELSE IF thr[u].self = self
                 THEN [thr[u] EXCEPT !.final = FALSE]
                 ELSE thr[u]]
    /\ deact' = [deact EXCEPT ![self] = FALSE]

\* Thread t enters a stop (stop_server, _exit_tree) of self: it has the last
\* word unless a start of self has begun and not yet made its check.
EnterStop(t, op, self) ==
    /\ thr[t].pc = "idle"
    /\ slot[self] = "live"
    /\ thr' = [thr EXCEPT ![t] =
                 [op |-> op, self |-> self, port |-> 0, pc |-> "stop_check",
                  final |-> ~\E u \in Threads :
                               thr[u].self = self /\ thr[u].pc = "start_check"]]

Goto(t, pc) == thr' = [thr EXCEPT ![t].pc = pc]

Return(t) == thr' = [thr EXCEPT ![t] = Idle]

Prints(line) ==
    /\ Fits(<<line>>)
    /\ log' = log \o <<line>>

\* A thread calls start_server(port) on self.
Begin_start_server(t, self, port) ==
    /\ EnterStart(t, "start_server", self, port)
    /\ UNCHANGED <<slot, obj, singleton_instance, registered, listeners, log, last, rt>>

\* A thread calls _enter_tree() on self: it prints, reads server_port for the
\* argument, and is inside start_server.
Begin_enter_tree(t, self) ==
    /\ EnterStart(t, "_enter_tree", self, obj[self].server_port)
    /\ Prints(Line("GodotAI: Plugin loaded and activated"))
    /\ UNCHANGED <<slot, obj, singleton_instance, registered, listeners, last, rt>>

\* if (server_running) { print("already running"); return; }
Step_start_check(t) ==
    /\ thr[t].pc = "start_check"
    /\ IF obj[thr[t].self].server_running
       THEN /\ Prints(Line("GodotAI: Server already running"))
            /\ Return(t)
       ELSE /\ Goto(t, "start_port")
            /\ UNCHANGED log
    /\ UNCHANGED <<slot, obj, singleton_instance, registered, listeners, last, rt, deact>>

\* server_port = port;
Step_start_port(t) ==
    /\ thr[t].pc = "start_port"
    /\ obj' = [obj EXCEPT ![thr[t].self].server_port = thr[t].port]
    /\ Goto(t, "start_flag")
    /\ UNCHANGED <<slot, singleton_instance, registered, listeners, log, last, rt, deact>>

\* server_running = true;
Step_start_flag(t) ==
    /\ thr[t].pc = "start_flag"
    /\ obj' = [obj EXCEPT ![thr[t].self].server_running = TRUE]
    /\ Goto(t, "start_print")
    /\ UNCHANGED <<slot, singleton_instance, registered, listeners, log, last, rt, deact>>

\* print("Server started (stub) on port ", port); and the return.
Step_start_print(t) ==
    /\ thr[t].pc = "start_print"
    /\ Prints(LineWithPort("GodotAI: Server started (stub) on port ", thr[t].port))
    /\ Return(t)
    /\ UNCHANGED <<slot, obj, singleton_instance, registered, listeners, last, rt, deact>>

\* A thread calls stop_server() on self.
Begin_stop_server(t, self) ==
    /\ EnterStop(t, "stop_server", self)
    /\ UNCHANGED <<slot, obj, singleton_instance, registered, listeners, log, last, rt, deact>>

\* A thread calls _exit_tree() on self: it is inside stop_server at once.
Begin_exit_tree(t, self) ==
    /\ EnterStop(t, "_exit_tree", self)
    /\ UNCHANGED <<slot, obj, singleton_instance, registered, listeners, log, last, rt, deact>>

\* stop_server has returned: to the caller of stop_server, or into _exit_tree.
StopReturns(t) ==
    IF thr[t].op = "_exit_tree"
    THEN Goto(t, "exit_print") /\ UNCHANGED deact
    ELSE Return(t) /\ deact' = [deact EXCEPT ![thr[t].self] = thr[t].final]

\* if (!server_running) { return; }
Step_stop_check(t) ==
    /\ thr[t].pc = "stop_check"
    /\ IF ~obj[thr[t].self].server_running
       THEN StopReturns(t)
       ELSE Goto(t, "stop_flag") /\ UNCHANGED deact
    /\ UNCHANGED <<slot, obj, singleton_instance, registered, listeners, log, last, rt>>

\* server_running = false;
Step_stop_flag(t) ==
    /\ thr[t].pc = "stop_flag"
    /\ obj' = [obj EXCEPT ![thr[t].self].server_running = FALSE]
    /\ Goto(t, "stop_print")
    /\ UNCHANGED <<slot, singleton_instance, registered, listeners, log, last, rt, deact>>

\* print("Server stopped"); and the return.
Step_stop_print(t) ==
    /\ thr[t].pc = "stop_print"
    /\ Prints(Line("GodotAI: Server stopped"))
    /\ StopReturns(t)
    /\ UNCHANGED <<slot, obj, singleton_instance, registered, listeners, last, rt>>

\* print("Plugin deactivated"); and the return of _exit_tree.
Step_exit_print(t) ==
    /\ thr[t].pc = "exit_print"
    /\ Prints(Line("GodotAI: Plugin deactivated"))
    /\ Return(t)
    /\ deact' = [deact EXCEPT ![thr[t].self] = thr[t].final]
    /\ UNCHANGED <<slot, obj, singleton_instance, registered, listeners, last, rt>>

\* The editor loads the module once, at editor level.
Load ==
    /\ ~registered
    /\ Call_initialize_gdai_module(MODULE_INITIALIZATION_LEVEL_EDITOR)

\* The editor constructs its one plugin object.
Plugin ==
    /\ FreeSlots = Instances
    /\ Call_GodotAI

\* Ports the script passes here: the ones of the TCP range.
StepPorts == {port \in Ports : port \in 1..65535}

NextSteps ==
    \/ Load
    \/ Plugin
    \/ \E self \in Instances, port \in StepPorts :
          Begin_start_server(ScriptThread, self, port)
    \/ \E self \in Instances : Begin_enter_tree(MainThread, self)
    \/ \E self \in Instances : Begin_stop_server(ScriptThread, self)
    \/ \E self \in Instances : Begin_exit_tree(MainThread, self)
    \/ \E t \in Threads : Step_start_check(t)
    \/ \E t \in Threads : Step_start_port(t)
    \/ \E t \in Threads : Step_start_flag(t)
    \/ \E t \in Threads : Step_start_print(t)
    \/ \E t \in Threads : Step_stop_check(t)
    \/ \E t \in Threads : Step_stop_flag(t)
    \/ \E t \in Threads : Step_stop_print(t)
    \/ \E t \in Threads : Step_exit_print(t)

\* The same program with its methods run line by line by two threads.
SpecSteps == Init /\ [][NextSteps]_vars

\* ============================================================ properties
ValidPorts == 1..65535
Live == {i \in Instances : slot[i] = "live"}
Started(port) == LineWithPort("GodotAI: Server started (stub) on port ", port)
AlreadyRunning == Line("GodotAI: Server already running")
Stopped == Line("GodotAI: Server stopped")

\* C1: start_server(q) on a running instance, for q equal to or different from
\* the current port, leaves server_running true and server_port unchanged, and
\* does nothing but report "already running" (no second start).
C1_IdempotentStart ==
    (last.op = "start_server" /\ last.pre.server_running) =>
        /\ obj[last.self].server_running
        /\ obj[last.self].server_port = last.pre.server_port
        /\ last.out = <<AlreadyRunning>>
        /\ Len(log) >= 1 /\ log[Len(log)] = AlreadyRunning

\* A running instance was asked to start on another port than its own.
C1_Witness ==
    /\ last.op = "start_server"
    /\ last.pre.server_running
    /\ last.arg # last.pre.server_port

\* C2: stop_server() on a stopped instance leaves server_running false and
\* server_port unchanged and tears nothing down (prints nothing); stopping
\* again after any stop changes nothing more.
C2_IdempotentStop ==
    /\ (last.op = "stop_server" /\ ~last.pre.server_running) =>
          /\ obj[last.self] = last.pre
          /\ ~obj[last.self].server_running
          /\ last.out = <<>>
    /\ \A i \in Live :
          LET once == stop_server(obj[i]).obj
          IN  stop_server(once) = [obj |-> once, out |-> <<>>]

\* stop_server() reached an instance that had been started on a port of its
\* own and stopped again before.
C2_Witness ==
    /\ last.op = "stop_server"
    /\ ~last.pre.server_running
    /\ last.pre.server_port # DefaultPort

\* C3: for a valid port p and a stopped instance, start_server(p);
\* stop_server(); start_server(p) ends running on port p, and the second
\* start_server really started the server (it was not turned away as
\* "already running").
C3_RoundTrip ==
    \A i \in Instances :
        (rt[i].n = 3 /\ rt[i].port \in ValidPorts) =>
            /\ slot[i] = "live"
            /\ is_server_running(obj[i])
            /\ obj[i].server_port = rt[i].port
            /\ rt[i].started

\* The three calls have run on one instance, on a valid port other than the
\* default.
C3_Witness ==
    \E i \in Instances :
        rt[i].n = 3 /\ rt[i].port \in ValidPorts /\ rt[i].port # DefaultPort

\* C4: start_server(port) on a stopped instance with a port outside 1..65535
\* fails and leaves the instance stopped with its port unchanged; every port in
\* 1..65535 is accepted.
C4_PortValidation ==
    (last.op = "start_server" /\ ~last.pre.server_running) =>
        IF last.arg \in ValidPorts
        THEN obj[last.self].server_running /\ obj[last.self].server_port = last.arg
        ELSE obj[last.self] = last.pre /\ last.out # <<Started(last.arg)>>

\* C5: the stored server_port of every instance is always in 1..65535.
C5_PortRange ==
    \A i \in Live : obj[i].server_port \in ValidPorts

\* C6: _enter_tree on a stopped instance ends running on the default port
\* 8765, whatever (valid) port earlier calls left in server_port.
C6_ActivationDefaultPort ==
    (/\ last.op = "_enter_tree"
     /\ ~last.pre.server_running
     /\ last.pre.server_port \in ValidPorts) =>
        /\ obj[last.self].server_running
        /\ obj[last.self].server_port = DefaultPort

\* C7: after _exit_tree, from a running or a stopped instance, the instance is
\* not running (and its port is the one it had); a further _exit_tree leaves
\* that state as it is.
C7_DeactivationStops ==
    (last.op = "_exit_tree") =>
        /\ ~is_server_running(obj[last.self])
        /\ obj[last.self].server_port = last.pre.server_port
        /\ _exit_tree(obj[last.self]).obj = obj[last.self]

\* _exit_tree ran on an instance whose server was running.
C7_Witness ==
    last.op = "_exit_tree" /\ last.pre.server_running

\* C8: teardown forces a stop: an object (here one started on a valid port)
\* is not running when its destructor returns, and no such live object is
\* running when uninitialize_gdai_module returns at editor level.
C8_TeardownForcesStop ==
    /\ (last.op = "~GodotAI" /\ last.post.server_port \in ValidPorts) =>
          ~last.post.server_running
    /\ (/\ last.op = "uninitialize_gdai_module"
        /\ last.level = MODULE_INITIALIZATION_LEVEL_EDITOR) =>
          \A i \in Live :
              obj[i].server_port \in ValidPorts => ~obj[i].server_running

\* C9: an instance (here one whose port is valid) is running if and only if a
\* listener endpoint is bound to its server_port.
C9_RunningIffBound ==
    \A i \in Live :
        obj[i].server_port \in ValidPorts =>
            (obj[i].server_running <=> (obj[i].server_port \in listeners))

\* C10: two instances are never both running on the same port (8765).
C10_PortExclusive ==
    \A i, j \in Live :
        (/\ i # j
         /\ obj[i].server_running /\ obj[i].server_port = DefaultPort
         /\ obj[j].server_running) =>
            obj[j].server_port # DefaultPort

\* C11: when a stop_server/_exit_tree interleaves with a start_server that is
\* still between its lines, the state once every call has returned is
\* consistent: an instance whose deactivation has returned, having begun after
\* the check of every start then under way and with no start begun since, is
\* not running, and an instance that is not running holds no bound port.
C11_DeactivateRace ==
    (\A t \in Threads : thr[t].pc = "idle") =>
        \A i \in Live :
            /\ deact[i] => ~is_server_running(obj[i])
            /\ ~is_server_running(obj[i]) => obj[i].server_port \notin listeners

\* C12: every call of start_server or stop_server, in any state, appends
\* exactly one outcome line to the log: started on port P, already running,
\* stopped, or not running.
C12_OneOutcomeLine ==
    (last.op \in {"start_server", "stop_server"}) =>
        /\ Len(last.out) = 1
        /\ Len(log) >= 1
        /\ log[Len(log)] = last.out[1]
        /\ IF last.op = "start_server"
           THEN last.out[1] \in {Started(last.arg), AlreadyRunning}
           ELSE last.out[1] \in {Stopped, Line("GodotAI: Server not running")}

\* C13: a newly constructed instance has server_running = false and
\* server_port = 8765, and the fields of an existing instance change only in a
\* start_server, stop_server, _enter_tree or _exit_tree call on that instance:
\* is_server_running, get_singleton, the constructor and destructor of any
\* object and the module's initialize/uninitialize leave them as they are.
C13_SingleWriterFrame ==
    [][\A i \in Instances :
          /\ (slot[i] # "live" /\ slot'[i] = "live") =>
                obj'[i] = [server_running |-> FALSE, server_port |-> DefaultPort]
          /\ (slot[i] = "live" /\ slot'[i] = "live" /\ obj'[i] # obj[i]) =>
                /\ last'.self = i
                /\ last'.op \in {"start_server", "stop_server",
                                 "_enter_tree", "_exit_tree"}]_vars

\* get_singleton constructed an object while another object, running on a
\* port of its own, existed.
C13_Witness ==
    /\ last.op = "get_singleton"
    /\ last.out # <<>>
    /\ \E j \in Live :
          j # last.self /\ obj[j].server_running /\ obj[j].server_port # DefaultPort

\* C14: get_singleton creates at most one object, on its first call, and every
\* call returns that object: once singleton_instance is set it never changes, a
\* later call constructs nothing, and what the returned handle shows is the
\* object's present state.
C14_SingletonIdentity ==
    [][/\ (singleton_instance # nullptr) =>
            /\ singleton_instance' = singleton_instance
            /\ (last'.op = "get_singleton") => (slot' = slot /\ obj' = obj)
       /\ (last'.op = "get_singleton") =>
            /\ singleton_instance' # nullptr
            /\ last'.self = singleton_instance'
            /\ (slot'[last'.self] = "live") => (last'.post = obj'[last'.self])]_vars

\* A later get_singleton call returned the object it had created, now running,
\* while an object constructed by the host existed as well.
C14_Witness ==
    /\ last.op = "get_singleton"
    /\ last.out = <<>>
    /\ last.self \in Live
    /\ last.post.server_running
    /\ \E j \in Live : j # last.self

\* C15: the GodotAI class is registered, and the init message logged, only by
\* an initialize_gdai_module call at MODULE_INITIALIZATION_LEVEL_EDITOR; an
\* initialize or uninitialize call at any other level changes nothing.
C15_EditorOnlyGating ==
    [][LET module == last'.op \in {"initialize_gdai_module", "uninitialize_gdai_module"}
           editor == last'.level = MODULE_INITIALIZATION_LEVEL_EDITOR
           initmsg == Line("GDAI: Module initialized (minimal stub)")
       IN  /\ (registered' # registered) =>
                (last'.op = "initialize_gdai_module" /\ editor)
           /\ (Len(log') > Len(log) /\ \E k \in (Len(log) + 1)..Len(log') : log'[k] = initmsg) =>
                (last'.op = "initialize_gdai_module" /\ editor)
           /\ (module /\ ~editor) =>
                /\ UNCHANGED <<slot, obj, singleton_instance, registered, listeners, log>>
                /\ last'.out = <<>>]_vars

\* initialize_gdai_module was called at another level than the editor's and the
\* class is not registered.
C15_Witness ==
    /\ last.op = "initialize_gdai_module"
    /\ last.level # MODULE_INITIALIZATION_LEVEL_EDITOR
    /\ ~registered

\* C16: server_port is the argument of the most recent start_server call that
\* executed while the server was stopped, 8765 if there has been none: a new
\* object holds 8765, a start_server call executed while stopped stores its
\* argument (the call _enter_tree makes passes server_port itself), and every
\* other step, stop_server and start_server while running included, leaves
\* server_port alone.
C16_PortTracksEffectiveStart ==
    [][\A i \in Instances :
          /\ (slot[i] # "live" /\ slot'[i] = "live") =>
                obj'[i].server_port = DefaultPort
          /\ (slot[i] = "live" /\ slot'[i] = "live") =>
                obj'[i].server_port =
                    IF last'.self = i /\ ~obj[i].server_running
                                     /\ last'.op = "start_server"
                    THEN last'.arg
                    ELSE obj[i].server_port]_vars

\* start_server was called with a valid port on an object already running on
\* another, non-default port, and the object has kept its port.
C16_Witness ==
    /\ last.op = "start_server"
    /\ last.self \in Live
    /\ last.pre.server_running
    /\ last.arg \in ValidPorts
    /\ last.arg # obj[last.self].server_port
    /\ obj[last.self].server_port # DefaultPort

IsStartedEvent(l) == \E port \in Ports : l = Started(port)

IsServerEvent(l) == IsStartedEvent(l) \/ l = Stopped

ServerEvents == SelectSeq(log, IsServerEvent)

SingleInstance == Cardinality({i \in Instances : slot[i] # "free"}) <= 1

\* C17: in the log of a run with a single instance the "Server started" and
\* "Server stopped" lines alternate, beginning with "Server started", and the
\* instance is running exactly when the last of them is "Server started".
C17_EventsAlternate ==
    SingleInstance =>
        /\ \A k \in 1..Len(ServerEvents) :
              IsStartedEvent(ServerEvents[k]) <=> (k % 2 = 1)
        /\ \A i \in Live :
              is_server_running(obj[i]) <=>
                  /\ ServerEvents # <<>>
                  /\ IsStartedEvent(ServerEvents[Len(ServerEvents)])

\* A single live instance has been started, stopped and started again, and a
\* further start_server call on it has just reported that it is running.
C17_Witness ==
    /\ SingleInstance
    /\ Live # {}
    /\ Len(ServerEvents) >= 3
    /\ last.op = "start_server"
    /\ last.out = <<AlreadyRunning>>

====
